---- MODULE Spec2Model ----
(***************************************************************************)
(* BlogController (src/controller/admin/BlogController.js): the twelve     *)
(* request handlers of the Blog entity, modelled as a state machine over   *)
(* the Blog collection.  Every handler is an async function with at most   *)
(* one await, on its store call: an invocation runs up to the store call   *)
(* in one step (or to its end, when it answers before any store call) and  *)
(* resumes in a later step, when the awaited call has settled.  Requests   *)
(* in flight interleave at the await.  The validation answer and the error *)
(* a store call may throw are chosen by the environment.                   *)
(***************************************************************************)
EXTENDS Integers, Sequences, FiniteSets, TLC

\* store, nextId: the Blog collection.  run[r]: the invocation serving request
\* r, with what it has done so far.
VARIABLES store, nextId, run

vars == <<store, nextId, run>>

(***************************************************************************)
(* Bounds.                                                                 *)
(***************************************************************************)
\* Number of Blog documents the collection can ever be given (ids are never reused).
MaxDocs == 1

(***************************************************************************)
(* JavaScript values.  Every value is tagged with its type; a string is    *)
(* the sequence of its characters, an object a function from its own keys  *)
(* to values, an array the sequence of its elements.                       *)
(***************************************************************************)
Undefined == [t |-> "undefined"]
Null == [t |-> "null"]
Bool(b) == [t |-> "boolean", b |-> b]
Num(n) == [t |-> "number", n |-> n]
Str(c) == [t |-> "string", c |-> c]
Arr(e) == [t |-> "array", e |-> e]
Obj(f) == [t |-> "object", f |-> f]

\* The object literal {} : no own keys.
NoKeys == [k \in {} |-> Undefined]

\* obj[k] = v on a key map.
Put(f, k, v) == [x \in (DOMAIN f) \cup {k} |-> IF x = k THEN v ELSE f[x]]

\* delete obj[k] on a key map.
Delete(f, k) == [x \in (DOMAIN f) \ {k} |-> f[x]]

\* !!v
Truthy(v) ==
  CASE v.t = "undefined" -> FALSE
    [] v.t = "null" -> FALSE
    [] v.t = "boolean" -> v.b
    [] v.t = "number" -> v.n # 0
    [] v.t = "string" -> Len(v.c) > 0
    [] OTHER -> TRUE

\* a || b
Or(a, b) == IF Truthy(a) THEN a ELSE b

\* typeof v === 'object' && v !== null  (arrays are objects)
IsNonNullObject(v) == v.t \in {"object", "array"}

\* Array.isArray(v)
IsArray(v) == v.t = "array"

\* Reading a property of undefined or null throws a TypeError.
Nullish(v) == v.t \in {"undefined", "null"}

\* The own key of an index of an array or a string: "0", "1", ...
IndexKeys == <<"0", "1", "2", "3">>

\* v.k : own property k of an object, undefined when absent or when v is a
\* primitive or an array (only named, non-index, non-length keys are read).
Get(v, k) == IF v.t = "object" /\ k \in DOMAIN v.f THEN v.f[k] ELSE Undefined

\* { ...v } : the own enumerable properties of v; none for undefined, null,
\* booleans and numbers; the indices for strings and arrays.
Spread(v) ==
  CASE v.t = "object" -> v.f
    [] v.t = "array" -> [k \in {IndexKeys[i] : i \in 1..Len(v.e)} |->
                           v.e[CHOOSE i \in 1..Len(v.e) : IndexKeys[i] = k]]
    [] v.t = "string" -> [k \in {IndexKeys[i] : i \in 1..Len(v.c)} |->
                           Str(<<v.c[CHOOSE i \in 1..Len(v.c) : IndexKeys[i] = k]>>)]
    [] OTHER -> NoKeys

(***************************************************************************)
(* Errors and responses.                                                   *)
(***************************************************************************)
Err(name, code) == [name |-> name, code |-> code]
NoError == Err("none", 0)
TypeError == Err("TypeError", 0)
\* What a store call can throw: a schema ValidationError, a duplicate-key
\* error (code 11000), or anything else.
StoreErrors == {Err("ValidationError", 0), Err("MongoError", 11000), Err("Error", 0)}
Faults == {NoError} \cup StoreErrors

Resp(helper, data) == [helper |-> helper, data |-> data]
\* A call of dbService: the operation, its filter, its payload and its options.
Call(op, filter, data, options) ==
  [op |-> op, filter |-> filter, data |-> data, options |-> options]

\* An invocation that ran to its end without awaiting: the response helpers
\* it called (in order), the error its catch block received, no store call.
Out(rs, cs, e, st, nid) ==
  [responses |-> rs, calls |-> cs, caught |-> e, store |-> st, nextId |-> nid,
   pending |-> FALSE, result |-> Undefined]

\* An invocation that issued store call c and awaits it: sent are the response
\* helpers called so far, x is what the store makes of the call unless it
\* throws.  The call takes effect when it is issued; a call that throws has
\* no effect.
Issued(sent, c, throws, x, st, nid) ==
  [responses |-> sent, calls |-> <<c>>, caught |-> NoError,
   store |-> IF throws THEN st ELSE x.store,
   nextId |-> IF throws THEN nid ELSE x.nextId,
   pending |-> TRUE, result |-> IF throws THEN Undefined ELSE x.result]

(***************************************************************************)
(* The Blog collection behind dbService.  store maps the slot of every     *)
(* document that exists to its fields; slot n holds the document whose     *)
(* _id is DocId(n).  Slots are handed out in order and never reused.       *)
(***************************************************************************)
HexChars == {"0", "1", "2", "3", "4", "5", "6", "7", "8", "9",
             "a", "b", "c", "d", "e", "f", "A", "B", "C", "D", "E", "F"}
Digits == <<"1", "2", "3", "4", "5", "6", "7", "8", "9">>

\* The object id of slot n: 24 hex characters.
DocId(n) == Str([i \in 1..24 |-> IF i = 24 THEN Digits[n] ELSE "0"])

\* ObjectId.isValid(id) for the values a path parameter can take.
ObjectIdIsValid(v) ==
  /\ v.t = "string"
  /\ Len(v.c) = 24
  /\ \A i \in 1..Len(v.c) : v.c[i] \in HexChars

\* The fields the Blog schema keeps; a model instance or an update drops the rest.
SchemaKeys == {"title", "addedBy", "updatedBy", "isDeleted"}

\* new Blog(data)
NewBlog(data) == [k \in (DOMAIN data) \cap SchemaKeys |-> data[k]]

\* A stored document as the store returns it.
WithId(n, doc) == Obj(Put(doc, "_id", DocId(n)))

\* The document after an update with `data` (top-level keys are set).
Updated(doc, data) ==
  [k \in (DOMAIN doc) \cup ((DOMAIN data) \cap SchemaKeys) |->
     IF k \in DOMAIN data THEN data[k] ELSE doc[k]]

\* Whether the _id condition of a filter selects slot n: an id, or { $in: [ids] }.
IdMatches(cond, n) ==
  IF cond.t = "object" /\ "$in" \in DOMAIN cond.f
  THEN LET a == cond.f["$in"]
       IN a.t = "array" /\ \E i \in 1..Len(a.e) : a.e[i] = DocId(n)
  ELSE cond = DocId(n)

\* Whether the document of slot n satisfies every condition of the filter.
Matches(filter, n, doc) ==
  \A k \in DOMAIN filter :
    IF k = "_id" THEN IdMatches(filter[k], n)
    ELSE k \in DOMAIN doc /\ doc[k] = filter[k]

Matching(st, filter) == {n \in DOMAIN st : Matches(filter, n, st[n])}

\* The slots a single-document lookup by { _id: id } may settle on (0: none).
\* An undefined id leaves the filter without a usable condition: the store
\* may then match nothing or any one document.
Targets(st, id) ==
  IF id = Undefined THEN {0} \cup DOMAIN st
  ELSE IF \E n \in DOMAIN st : DocId(n) = id
       THEN {n \in DOMAIN st : DocId(n) = id}
       ELSE {0}

Ret(result, st, nid) == [result |-> result, store |-> st, nextId |-> nid]

\* dbService.createDocument(Blog, doc)
createDocument(st, nid, doc) ==
  Ret(WithId(nid, doc), [n \in (DOMAIN st) \cup {nid} |-> IF n = nid THEN doc ELSE st[n]],
      nid + 1)

\* dbService.bulkInsert(Blog, docs)
bulkInsert(st, nid, docs) ==
  LET new == nid..(nid + Len(docs) - 1)
  IN Ret(Arr([i \in 1..Len(docs) |-> WithId(nid + i - 1, NewBlog(docs[i]))]),
         [n \in (DOMAIN st) \cup new |->
            IF n \in new THEN NewBlog(docs[n - nid + 1]) ELSE st[n]],
         nid + Len(docs))

\* dbService.bulkUpdate(Blog, filter, data): the number of documents updated.
bulkUpdate(st, nid, filter, data) ==
  LET hit == Matching(st, filter)
  IN Ret(Num(Cardinality(hit)),
         [n \in DOMAIN st |-> IF n \in hit THEN Updated(st[n], data) ELSE st[n]],
         nid)

\* dbService.deleteMany(Blog, filter): the number of documents deleted.
deleteMany(st, nid, filter) ==
  LET hit == Matching(st, filter)
  IN Ret(Num(Cardinality(hit)), [n \in (DOMAIN st) \ hit |-> st[n]], nid)

\* dbService.findOneAndUpdateDocument(Blog, { _id }, data, { new: true })
findOneAndUpdateDocument(st, nid, pick, data) ==
  IF pick = 0 THEN Ret(Null, st, nid)
  ELSE Ret(WithId(pick, Updated(st[pick], data)),
           [n \in DOMAIN st |-> IF n = pick THEN Updated(st[n], data) ELSE st[n]],
           nid)

\* dbService.findOneAndDeleteDocument(Blog, { _id })
findOneAndDeleteDocument(st, nid, pick) ==
  IF pick = 0 THEN Ret(Null, st, nid)
  ELSE Ret(WithId(pick, st[pick]), [n \in (DOMAIN st) \ {pick} |-> st[n]], nid)

\* dbService.getSingleDocument(Blog, { _id }, {})
getSingleDocument(st, nid, pick) ==
  Ret(IF pick = 0 THEN Null ELSE WithId(pick, st[pick]), st, nid)

\* dbService.countDocument(Blog, filter)
countDocument(st, nid, filter) == Ret(Num(Cardinality(Matching(st, filter))), st, nid)

\* dbService.getAllDocuments(Blog, query, options): { data: [documents] }.
getAllDocuments(st, nid, filter) ==
  LET slots == SelectSeq([i \in 1..MaxDocs |-> i], LAMBDA n : n \in Matching(st, filter))
  IN Ret(Obj(Put(NoKeys, "data", Arr([i \in 1..Len(slots) |-> WithId(slots[i], st[slots[i]])]))),
         st, nid)

\* The store operation a call stands for, applied to the collection.
Exec(c, st, nid, pick) ==
  CASE c.op = "createDocument" -> createDocument(st, nid, c.data.f)
    [] c.op = "bulkInsert" -> bulkInsert(st, nid, [i \in 1..Len(c.data.e) |-> c.data.e[i].f])
    [] c.op = "bulkUpdate" -> bulkUpdate(st, nid, c.filter.f, c.data.f)
    [] c.op = "deleteMany" -> deleteMany(st, nid, c.filter.f)
    [] c.op = "findOneAndUpdateDocument" -> findOneAndUpdateDocument(st, nid, pick, c.data.f)
    [] c.op = "findOneAndDeleteDocument" -> findOneAndDeleteDocument(st, nid, pick)
    [] c.op = "getSingleDocument" -> getSingleDocument(st, nid, pick)
    [] c.op = "countDocument" -> countDocument(st, nid, c.filter.f)
    [] c.op = "getAllDocuments" -> getAllDocuments(st, nid, c.filter.f)

(***************************************************************************)
(* The handlers.  body is req.body, id is req.params.id, user is           *)
(* req.user.id, valid is the isValid the validation service answers,       *)
(* throws says whether the store call will throw, flt is the error it has  *)
(* thrown (NoError: it returned), pick is the slot a single-document       *)
(* lookup settles on, st and nid are the collection before the call.       *)
(* <handler>Run is the invocation up to its await (or to its end),         *)
(* <handler>After the response once the awaited call c has settled.        *)
(***************************************************************************)
ValidationErrorResp == Resp("validationError", Undefined)
BadRequestResp == Resp("badRequest", Undefined)
RecordNotFoundResp == Resp("recordNotFound", Undefined)
InternalServerErrorResp == Resp("internalServerError", Undefined)
Success(data) == Resp("success", data)

\* ---- addBlog ----
addBlogCatch(error) ==
  IF error.name = "ValidationError" THEN ValidationErrorResp
  ELSE IF error.code # 0 /\ error.code = 11000 THEN ValidationErrorResp
  ELSE InternalServerErrorResp

\* Mutant: the validation answer is ignored.
addBlogRejects_ignored(valid) == FALSE

\* if (!validateRequest.isValid) return res.validationError(...)
addBlogRejects(valid) == ~valid

\* The document handed to createDocument.
addBlogData(body, user) == NewBlog(Put(Spread(Or(body, Obj(NoKeys))), "addedBy", user))

addBlogRun(body, user, valid, throws, st, nid) ==
  LET c == Call("createDocument", Undefined, Obj(addBlogData(body, user)), Undefined)
  IN IF addBlogRejects(valid) THEN Out(<<ValidationErrorResp>>, <<>>, NoError, st, nid)
     ELSE Issued(<<>>, c, throws, Exec(c, st, nid, 0), st, nid)

addBlogAfter(c, flt, createdBlog) ==
  IF flt # NoError THEN addBlogCatch(flt) ELSE Success(createdBlog)

\* ---- findAllBlog ----
findAllBlogCatch(error) == InternalServerErrorResp

\* Mutant: only the boolean true counts, not every truthy value.
findAllBlogCountOnly_strict(body) == Get(body, "isCountOnly") = Bool(TRUE)

\* if (req.body.isCountOnly)
findAllBlogCountOnly(body) == Truthy(Get(body, "isCountOnly"))

findAllBlogRun(body, valid, throws, st, nid) ==
  LET q == Get(body, "query")
      query == IF IsNonNullObject(q) THEN Spread(q) ELSE NoKeys
      o == Get(body, "options")
      options == IF Truthy(body) /\ IsNonNullObject(o) THEN Spread(o) ELSE NoKeys
      cc == Call("countDocument", Obj(query), Undefined, Undefined)
      ca == Call("getAllDocuments", Obj(query), Undefined, Obj(options))
  IN IF ~valid THEN Out(<<ValidationErrorResp>>, <<>>, NoError, st, nid)
     ELSE IF Nullish(body)
       THEN Out(<<findAllBlogCatch(TypeError)>>, <<>>, TypeError, st, nid)
     ELSE IF findAllBlogCountOnly(body) THEN Issued(<<>>, cc, throws, Exec(cc, st, nid, 0), st, nid)
     ELSE Issued(<<>>, ca, throws, Exec(ca, st, nid, 0), st, nid)

\* After await countDocument (c is that call) or await getAllDocuments.
findAllBlogAfter(c, flt, result) ==
  IF flt # NoError THEN findAllBlogCatch(flt)
  ELSE IF c.op = "countDocument" THEN Success(Obj(Put(NoKeys, "totalRecords", result)))
  ELSE IF \/ ~Truthy(result)
          \/ ~Truthy(Get(result, "data"))
          \/ Len(Get(result, "data").e) = 0
    THEN RecordNotFoundResp
  ELSE Success(result)

\* ---- getBlogCount ----
getBlogCountCatch(error) == InternalServerErrorResp

getBlogCountRun(body, valid, throws, st, nid) ==
  LET w == Get(body, "where")
      where == IF IsNonNullObject(w) THEN Spread(w) ELSE NoKeys
      c == Call("countDocument", Obj(where), Undefined, Undefined)
  IN IF ~valid THEN Out(<<ValidationErrorResp>>, <<>>, NoError, st, nid)
     ELSE IF Nullish(body)
       THEN Out(<<getBlogCountCatch(TypeError)>>, <<>>, TypeError, st, nid)
     ELSE Issued(<<>>, c, throws, Exec(c, st, nid, 0), st, nid)

getBlogCountAfter(c, flt, countedBlog) ==
  IF flt # NoError THEN getBlogCountCatch(flt)
  ELSE Success(Obj(Put(NoKeys, "totalRecords", countedBlog)))

\* ---- softDeleteManyBlog ----
softDeleteManyBlogCatch(error) == InternalServerErrorResp

\* Mutant: the length check is missing.
softDeleteManyBlogRejects_noLength(ids) == ~Truthy(ids) \/ ~IsArray(ids)

\* if (!ids || !Array.isArray(ids) || ids.length < 1)
softDeleteManyBlogRejects(ids) == ~Truthy(ids) \/ ~IsArray(ids) \/ Len(ids.e) < 1

\* { _id: { $in: ids } }
IdsQuery(ids) == Put(NoKeys, "_id", Obj(Put(NoKeys, "$in", ids)))

\* { isDeleted: true, updatedBy: req.user.id }
SoftDeleteBody(user) == Put(Put(NoKeys, "isDeleted", Bool(TRUE)), "updatedBy", user)

\* The store call of softDeleteManyBlog.
softDeleteManyBlogCall(ids, user) ==
  Call("bulkUpdate", Obj(IdsQuery(ids)), Obj(SoftDeleteBody(user)), Undefined)

softDeleteManyBlogRun(body, user, throws, st, nid) ==
  LET ids == Get(body, "ids")
      c == softDeleteManyBlogCall(ids, user)
  IN IF Nullish(body)
       THEN Out(<<softDeleteManyBlogCatch(TypeError)>>, <<>>, TypeError, st, nid)
     ELSE IF softDeleteManyBlogRejects(ids) THEN Out(<<BadRequestResp>>, <<>>, NoError, st, nid)
     ELSE Issued(<<>>, c, throws, Exec(c, st, nid, 0), st, nid)

softDeleteManyBlogAfter(c, flt, updatedBlog) ==
  IF flt # NoError THEN softDeleteManyBlogCatch(flt)
  ELSE IF ~Truthy(updatedBlog) THEN RecordNotFoundResp
  ELSE Success(updatedBlog)

\* ---- bulkInsertBlog ----
bulkInsertBlogCatch(error) ==
  IF error.name = "ValidationError" THEN ValidationErrorResp
  ELSE IF error.code # 0 /\ error.code = 11000 THEN ValidationErrorResp
  ELSE InternalServerErrorResp

\* if (req.body && (!Array.isArray(req.body.data) || req.body.data.length < 1))
bulkInsertBlogRejects(body) ==
  Truthy(body) /\ (~IsArray(Get(body, "data")) \/ Len(Get(body, "data").e) < 1)

\* dataToCreate[i] = { ...dataToCreate[i], addedBy: req.user.id }
bulkInsertBlogData(data, user) ==
  Arr([i \in 1..Len(data.e) |-> Obj(Put(Spread(data.e[i]), "addedBy", user))])

bulkInsertBlogRun(body, user, throws, st, nid) ==
  LET c == Call("bulkInsert", Undefined, bulkInsertBlogData(Get(body, "data"), user), Undefined)
  IN IF bulkInsertBlogRejects(body) THEN Out(<<BadRequestResp>>, <<>>, NoError, st, nid)
     ELSE IF ~Truthy(body)
       THEN Out(<<bulkInsertBlogCatch(TypeError)>>, <<>>, TypeError, st, nid)
     ELSE Issued(<<>>, c, throws, Exec(c, st, nid, 0), st, nid)

bulkInsertBlogAfter(c, flt, createdBlogs) ==
  IF flt # NoError THEN bulkInsertBlogCatch(flt) ELSE Success(createdBlogs)

\* ---- bulkUpdateBlog ----
bulkUpdateBlogCatch(error) == InternalServerErrorResp

\* let filter = req.body && req.body.filter ? { ...req.body.filter } : {};
bulkUpdateBlogFilter(body) ==
  IF Truthy(body) /\ Truthy(Get(body, "filter")) THEN Spread(Get(body, "filter")) ELSE NoKeys

\* Mutant: addedBy is not deleted from the copy.
bulkUpdateBlogData_keepsAddedBy(body, user) ==
  LET data == Get(body, "data")
  IN IF IsNonNullObject(data) THEN Put(Spread(data), "updatedBy", user) ELSE Spread(data)

\* dataToUpdate: the copy of req.body.data without addedBy, with updatedBy
\* when req.body.data is a non-null object.
bulkUpdateBlogData(body, user) ==
  LET data == Get(body, "data")
      dataToUpdate == Delete(Spread(data), "addedBy")
  IN IF IsNonNullObject(data) THEN Put(dataToUpdate, "updatedBy", user) ELSE dataToUpdate

bulkUpdateBlogRun(body, user, throws, st, nid) ==
  LET c == Call("bulkUpdate", Obj(bulkUpdateBlogFilter(body)),
                Obj(bulkUpdateBlogData(body, user)), Undefined)
  IN IF Nullish(body)
       THEN Out(<<bulkUpdateBlogCatch(TypeError)>>, <<>>, TypeError, st, nid)
     ELSE Issued(<<>>, c, throws, Exec(c, st, nid, 0), st, nid)

bulkUpdateBlogAfter(c, flt, result) ==
  IF flt # NoError THEN bulkUpdateBlogCatch(flt)
  ELSE IF ~Truthy(result) THEN RecordNotFoundResp
  ELSE Success(result)

\* ---- deleteManyBlog ----
deleteManyBlogCatch(error) == InternalServerErrorResp

\* if (!ids || !Array.isArray(ids) || ids.length < 1)
deleteManyBlogRejects(ids) == ~Truthy(ids) \/ ~IsArray(ids) \/ Len(ids.e) < 1

deleteManyBlogRun(body, throws, st, nid) ==
  LET ids == Get(body, "ids")
      c == Call("deleteMany", Obj(IdsQuery(ids)), Undefined, Undefined)
  IN IF Nullish(body)
       THEN Out(<<deleteManyBlogCatch(TypeError)>>, <<>>, TypeError, st, nid)
     ELSE IF deleteManyBlogRejects(ids) THEN Out(<<BadRequestResp>>, <<>>, NoError, st, nid)
     ELSE Issued(<<>>, c, throws, Exec(c, st, nid, 0), st, nid)

deleteManyBlogAfter(c, flt, deletedBlog) ==
  IF flt # NoError THEN deleteManyBlogCatch(flt)
  ELSE IF ~Truthy(deletedBlog) THEN RecordNotFoundResp
  ELSE Success(deletedBlog)

\* ---- softDeleteBlog ----
softDeleteBlogCatch(error) == InternalServerErrorResp

\* { _id: req.params.id }
IdQuery(id) == Put(NoKeys, "_id", id)

\* { new: true }
NewTrue == Put(NoKeys, "new", Bool(TRUE))

\* Mutant: the soft delete removes the document.
softDeleteBlogCall_hard(id, user) ==
  Call("findOneAndDeleteDocument", Obj(IdQuery(id)), Undefined, Undefined)

\* The store call of softDeleteBlog.
softDeleteBlogCall(id, user) ==
  Call("findOneAndUpdateDocument", Obj(IdQuery(id)), Obj(SoftDeleteBody(user)), Obj(NewTrue))

softDeleteBlogRun(id, user, throws, pick, st, nid) ==
  LET c == softDeleteBlogCall(id, user)
  IN IF ~Truthy(id) THEN Out(<<BadRequestResp>>, <<>>, NoError, st, nid)
     ELSE Issued(<<>>, c, throws, Exec(c, st, nid, pick), st, nid)

softDeleteBlogAfter(c, flt, updatedBlog) ==
  IF flt # NoError THEN softDeleteBlogCatch(flt)
  ELSE IF ~Truthy(updatedBlog) THEN RecordNotFoundResp
  ELSE Success(updatedBlog)

\* ---- partialUpdateBlog ----
partialUpdateBlogCatch(error) == InternalServerErrorResp

\* if (!req.params.id) { res.badRequest(); }  -- the handler goes on.
partialUpdateBlogIdCheck(id) == IF ~Truthy(id) THEN <<BadRequestResp>> ELSE <<>>

\* delete req.body['addedBy']: req.body as the handler leaves it (the key is
\* removed from the request's own object; a missing body makes it throw).
partialUpdateBlogBody(body) ==
  IF body.t = "object" THEN Obj(Delete(body.f, "addedBy")) ELSE body

\* { ...req.body, updatedBy: req.user.id }
partialUpdateBlogData(body, user) ==
  Put(Spread(partialUpdateBlogBody(body)), "updatedBy", user)

partialUpdateBlogRun(body, id, user, valid, throws, pick, st, nid) ==
  LET sent == partialUpdateBlogIdCheck(id)
      c == Call("findOneAndUpdateDocument", Obj(IdQuery(id)),
                Obj(partialUpdateBlogData(body, user)), Obj(NewTrue))
  IN IF Nullish(body)
       THEN Out(Append(sent, partialUpdateBlogCatch(TypeError)), <<>>, TypeError, st, nid)
     ELSE IF ~valid THEN Out(Append(sent, ValidationErrorResp), <<>>, NoError, st, nid)
     ELSE Issued(sent, c, throws, Exec(c, st, nid, pick), st, nid)

partialUpdateBlogAfter(c, flt, updatedBlog) ==
  IF flt # NoError THEN partialUpdateBlogCatch(flt)
  ELSE IF ~Truthy(updatedBlog) THEN RecordNotFoundResp
  ELSE Success(updatedBlog)

\* ---- updateBlog ----
updateBlogCatch(error) ==
  IF error.name = "ValidationError" THEN ValidationErrorResp
  ELSE IF error.code # 0 /\ error.code = 11000 THEN ValidationErrorResp
  ELSE InternalServerErrorResp

\* { ...req.body, updatedBy: req.user.id }
updateBlogData(body, user) == Put(Spread(body), "updatedBy", user)

updateBlogRun(body, id, user, valid, throws, pick, st, nid) ==
  LET c == Call("findOneAndUpdateDocument", Obj(IdQuery(id)),
                Obj(updateBlogData(body, user)), Obj(NewTrue))
  IN IF ~valid THEN Out(<<ValidationErrorResp>>, <<>>, NoError, st, nid)
     ELSE Issued(<<>>, c, throws, Exec(c, st, nid, pick), st, nid)

updateBlogAfter(c, flt, updatedBlog) ==
  IF flt # NoError THEN updateBlogCatch(flt)
  ELSE IF ~Truthy(updatedBlog) THEN RecordNotFoundResp
  ELSE Success(updatedBlog)

\* ---- getBlog ----
getBlogCatch(error) == InternalServerErrorResp

\* Mutant: the id is only checked for presence, as in the other handlers.
getBlogRejects_presence(id) == ~Truthy(id)

\* if (!ObjectId.isValid(req.params.id)) return res.validationError(...)
getBlogRejects(id) == ~ObjectIdIsValid(id)

getBlogRun(id, throws, pick, st, nid) ==
  LET c == Call("getSingleDocument", Obj(IdQuery(id)), Undefined, Obj(NoKeys))
  IN IF getBlogRejects(id) THEN Out(<<ValidationErrorResp>>, <<>>, NoError, st, nid)
     ELSE Issued(<<>>, c, throws, Exec(c, st, nid, pick), st, nid)

getBlogAfter(c, flt, foundBlog) ==
  IF flt # NoError THEN getBlogCatch(flt)
  ELSE IF ~Truthy(foundBlog) THEN RecordNotFoundResp
  ELSE Success(foundBlog)

\* ---- deleteBlog ----
deleteBlogCatch(error) == InternalServerErrorResp

deleteBlogRun(id, throws, pick, st, nid) ==
  LET c == Call("findOneAndDeleteDocument", Obj(IdQuery(id)), Undefined, Undefined)
  IN IF ~Truthy(id) THEN Out(<<BadRequestResp>>, <<>>, NoError, st, nid)
     ELSE Issued(<<>>, c, throws, Exec(c, st, nid, pick), st, nid)

deleteBlogAfter(c, flt, deletedBlog) ==
  IF flt # NoError THEN deleteBlogCatch(flt)
  ELSE IF ~Truthy(deletedBlog) THEN RecordNotFoundResp
  ELSE Success(deletedBlog)

(***************************************************************************)
(* Requests.                                                               *)
(***************************************************************************)
\* req.user.id of the authenticated user, and the id of another user, which
\* is what a client forging addedBy / updatedBy sends.
U1 == Str(<<"u", "1">>)
U2 == Str(<<"u", "2">>)
AuthUsers == {U1}

\* Bodies of addBlog: no body at all, or a Blog with a client-supplied
\* updatedBy.
CreateBodies == {Undefined, Obj(Put(NoKeys, "updatedBy", U2))}

\* Bodies of updateBlog and partialUpdateBlog: no body at all, or a Blog with
\* a client-supplied addedBy.
ContentBodies == {Undefined, Obj(Put(NoKeys, "addedBy", U2))}

\* req.params.id: missing, empty, not an object id, or the id of a slot.
DocIds == {DocId(n) : n \in 1..MaxDocs}
ParamIds == {Undefined, Str(<<>>), Str(<<"z", "z">>)} \cup DocIds

\* req.params.id of partialUpdateBlog and of updateBlog.
PartialUpdateIds == {Undefined} \cup DocIds
UpdateIds == {Str(<<"z", "z">>)} \cup DocIds

\* Values of body.ids.
IdLists ==
  {Undefined, Str(<<"z">>), Arr(<<>>), Arr(<<DocId(1)>>), Arr(<<DocId(1), DocId(MaxDocs)>>)}
IdsBodies == {Undefined, Obj(NoKeys)} \cup {Obj(Put(NoKeys, "ids", v)) : v \in IdLists \ {Undefined}}

\* The filter a client sends as query / where / filter.
Deleted == Obj(Put(NoKeys, "isDeleted", Bool(TRUE)))

\* The object with exactly the keys whose value is not undefined.
Body(pairs) ==
  Obj([k \in {p[1] : p \in {q \in pairs : q[2] # Undefined}} |->
        (CHOOSE p \in pairs : p[1] = k)[2]])

FindBodies ==
  {Undefined, Obj(NoKeys), Body({<<"isCountOnly", Str(<<"y">>)>>}),
   Body({<<"query", Deleted>>, <<"options", Obj(NoKeys)>>, <<"isCountOnly", Bool(FALSE)>>})}

CountBodies == {Undefined, Obj(NoKeys), Body({<<"where", Deleted>>})}

\* Values of body.data of bulkInsertBlog.
InsertData ==
  {Undefined, Obj(NoKeys), Arr(<<>>), Arr(<<Obj(NoKeys)>>),
   Arr(<<Obj(Put(NoKeys, "updatedBy", U2))>>), Arr(<<Obj(NoKeys), Obj(NoKeys)>>)}
InsertBodies == {Undefined} \cup {Body({<<"data", d>>}) : d \in InsertData}

\* Values of body.data of bulkUpdateBlog.
Forged == Obj(Put(Put(NoKeys, "addedBy", U2), "updatedBy", U2))
UpdateBodies ==
  {Undefined, Obj(NoKeys), Body({<<"data", Null>>}), Body({<<"data", Str(<<"h", "i">>)>>}),
   Body({<<"filter", Null>>, <<"data", Arr(<<U2>>)>>}),
   Body({<<"filter", Deleted>>, <<"data", Forged>>})}

Request(body, id, user) == [body |-> body, id |-> id, user |-> user]
NoRequest == Request(Undefined, Undefined, Undefined)

(***************************************************************************)
(* The state machine.  Reqs are the requests that can be in flight at the  *)
(* same time.  run[r].pc is "idle" (no invocation), "awaiting" (the store  *)
(* call is issued, the handler is suspended at its await) or "done" (the   *)
(* handler has sent its response and is about to return).                  *)
(***************************************************************************)
Reqs == {1, 2}

Idle ==
  [pc |-> "idle", handler |-> "none", req |-> NoRequest, isValid |-> TRUE,
   throws |-> FALSE, fault |-> NoError, caught |-> NoError, responses |-> <<>>,
   calls |-> <<>>, result |-> Undefined, wrote |-> FALSE]

Init ==
  /\ store = <<>>
  /\ nextId = 1
  /\ run = [r \in Reqs |-> Idle]

\* Request r can be taken up: the event loop is free (no handler is in the
\* middle of its synchronous run) and r is the first request not in flight.
Free(r) ==
  /\ \A q \in Reqs : run[q].pc # "done"
  /\ run[r].pc = "idle"
  /\ \A q \in Reqs : q < r => run[q].pc # "idle"

\* Handler h, invoked for request r, ran up to its await or to its end with
\* outcome out (wrote: this run changed the collection).  An insert that
\* would pass MaxDocs documents is left out, and only a store call that is
\* issued throws.
Started(r, h, rq, valid, throws, out) ==
  /\ out.nextId <= MaxDocs + 1
  /\ out.calls = <<>> => ~throws
  /\ run' = [run EXCEPT ![r] =
       [pc |-> IF out.pending THEN "awaiting" ELSE "done",
        handler |-> h, req |-> rq, isValid |-> valid, throws |-> throws,
        fault |-> NoError, caught |-> out.caught, responses |-> out.responses,
        calls |-> out.calls, result |-> out.result, wrote |-> out.store # store]]
  /\ store' = out.store
  /\ nextId' = out.nextId

\* The store call request r awaits has settled, with the error flt thrown or
\* the result returned: the handler goes on after its await and answers resp.
Resumed(r, flt, resp) ==
  /\ run' = [run EXCEPT ![r].pc = "done", ![r].fault = flt, ![r].caught = flt,
                        ![r].responses = Append(@, resp)]
  /\ UNCHANGED <<store, nextId>>

\* Request r is suspended in handler h and the event loop is free.
Awaiting(r, h) ==
  /\ \A q \in Reqs : run[q].pc # "done"
  /\ run[r].pc = "awaiting"
  /\ run[r].handler = h

\* The errors the awaited call of request r can have thrown.
Thrown(r) == IF run[r].throws THEN StoreErrors ELSE {NoError}

addBlog ==
  \E r \in Reqs :
    /\ Free(r)
    /\ \E body \in CreateBodies, user \in AuthUsers, valid \in BOOLEAN, throws \in BOOLEAN :
      Started(r, "addBlog", Request(body, Undefined, user), valid, throws,
              addBlogRun(body, user, valid, throws, store, nextId))

addBlogResumed ==
  \E r \in Reqs :
    /\ Awaiting(r, "addBlog")
    /\ \E flt \in Thrown(r) :
      Resumed(r, flt, addBlogAfter(run[r].calls[1], flt, run[r].result))

findAllBlog ==
  \E r \in Reqs :
    /\ Free(r)
    /\ \E body \in FindBodies, user \in AuthUsers, valid \in BOOLEAN, throws \in BOOLEAN :
      Started(r, "findAllBlog", Request(body, Undefined, user), valid, throws,
              findAllBlogRun(body, valid, throws, store, nextId))

findAllBlogResumed ==
  \E r \in Reqs :
    /\ Awaiting(r, "findAllBlog")
    /\ \E flt \in Thrown(r) :
      Resumed(r, flt, findAllBlogAfter(run[r].calls[1], flt, run[r].result))

getBlogCount ==
  \E r \in Reqs :
    /\ Free(r)
    /\ \E body \in CountBodies, user \in AuthUsers, valid \in BOOLEAN, throws \in BOOLEAN :
      Started(r, "getBlogCount", Request(body, Undefined, user), valid, throws,
              getBlogCountRun(body, valid, throws, store, nextId))

getBlogCountResumed ==
  \E r \in Reqs :
    /\ Awaiting(r, "getBlogCount")
    /\ \E flt \in Thrown(r) :
      Resumed(r, flt, getBlogCountAfter(run[r].calls[1], flt, run[r].result))

softDeleteManyBlog ==
  \E r \in Reqs :
    /\ Free(r)
    /\ \E body \in IdsBodies, user \in AuthUsers, throws \in BOOLEAN :
      Started(r, "softDeleteManyBlog", Request(body, Undefined, user), TRUE, throws,
              softDeleteManyBlogRun(body, user, throws, store, nextId))

softDeleteManyBlogResumed ==
  \E r \in Reqs :
    /\ Awaiting(r, "softDeleteManyBlog")
    /\ \E flt \in Thrown(r) :
      Resumed(r, flt, softDeleteManyBlogAfter(run[r].calls[1], flt, run[r].result))

bulkInsertBlog ==
  \E r \in Reqs :
    /\ Free(r)
    /\ \E body \in InsertBodies, user \in AuthUsers, throws \in BOOLEAN :
      Started(r, "bulkInsertBlog", Request(body, Undefined, user), TRUE, throws,
              bulkInsertBlogRun(body, user, throws, store, nextId))

bulkInsertBlogResumed ==
  \E r \in Reqs :
    /\ Awaiting(r, "bulkInsertBlog")
    /\ \E flt \in Thrown(r) :
      Resumed(r, flt, bulkInsertBlogAfter(run[r].calls[1], flt, run[r].result))

bulkUpdateBlog ==
  \E r \in Reqs :
    /\ Free(r)
    /\ \E body \in UpdateBodies, user \in AuthUsers, throws \in BOOLEAN :
      Started(r, "bulkUpdateBlog", Request(body, Undefined, user), TRUE, throws,
              bulkUpdateBlogRun(body, user, throws, store, nextId))

bulkUpdateBlogResumed ==
  \E r \in Reqs :
    /\ Awaiting(r, "bulkUpdateBlog")
    /\ \E flt \in Thrown(r) :
      Resumed(r, flt, bulkUpdateBlogAfter(run[r].calls[1], flt, run[r].result))

deleteManyBlog ==
  \E r \in Reqs :
    /\ Free(r)
    /\ \E body \in IdsBodies, user \in AuthUsers, throws \in BOOLEAN :
      Started(r, "deleteManyBlog", Request(body, Undefined, user), TRUE, throws,
              deleteManyBlogRun(body, throws, store, nextId))

deleteManyBlogResumed ==
  \E r \in Reqs :
    /\ Awaiting(r, "deleteManyBlog")
    /\ \E flt \in Thrown(r) :
      Resumed(r, flt, deleteManyBlogAfter(run[r].calls[1], flt, run[r].result))

softDeleteBlog ==
  \E r \in Reqs :
    /\ Free(r)
    /\ \E id \in ParamIds, user \in AuthUsers, throws \in BOOLEAN :
      \E pick \in Targets(store, id) :
        Started(r, "softDeleteBlog", Request(Undefined, id, user), TRUE, throws,
                softDeleteBlogRun(id, user, throws, pick, store, nextId))

softDeleteBlogResumed ==
  \E r \in Reqs :
    /\ Awaiting(r, "softDeleteBlog")
    /\ \E flt \in Thrown(r) :
      Resumed(r, flt, softDeleteBlogAfter(run[r].calls[1], flt, run[r].result))

partialUpdateBlog ==
  \E r \in Reqs :
    /\ Free(r)
    /\ \E body \in ContentBodies, id \in PartialUpdateIds, user \in AuthUsers,
       valid \in BOOLEAN, throws \in BOOLEAN :
      \E pick \in Targets(store, id) :
        Started(r, "partialUpdateBlog", Request(partialUpdateBlogBody(body), id, user),
                valid, throws,
                partialUpdateBlogRun(body, id, user, valid, throws, pick, store, nextId))

partialUpdateBlogResumed ==
  \E r \in Reqs :
    /\ Awaiting(r, "partialUpdateBlog")
    /\ \E flt \in Thrown(r) :
      Resumed(r, flt, partialUpdateBlogAfter(run[r].calls[1], flt, run[r].result))

updateBlog ==
  \E r \in Reqs :
    /\ Free(r)
    /\ \E body \in ContentBodies, id \in UpdateIds, user \in AuthUsers,
       valid \in BOOLEAN, throws \in BOOLEAN :
      \E pick \in Targets(store, id) :
        Started(r, "updateBlog", Request(body, id, user), valid, throws,
                updateBlogRun(body, id, user, valid, throws, pick, store, nextId))

updateBlogResumed ==
  \E r \in Reqs :
    /\ Awaiting(r, "updateBlog")
    /\ \E flt \in Thrown(r) :
      Resumed(r, flt, updateBlogAfter(run[r].calls[1], flt, run[r].result))

getBlog ==
  \E r \in Reqs :
    /\ Free(r)
    /\ \E id \in ParamIds, user \in AuthUsers, throws \in BOOLEAN :
      \E pick \in Targets(store, id) :
        Started(r, "getBlog", Request(Undefined, id, user), TRUE, throws,
                getBlogRun(id, throws, pick, store, nextId))

getBlogResumed ==
  \E r \in Reqs :
    /\ Awaiting(r, "getBlog")
    /\ \E flt \in Thrown(r) :
      Resumed(r, flt, getBlogAfter(run[r].calls[1], flt, run[r].result))

deleteBlog ==
  \E r \in Reqs :
    /\ Free(r)
    /\ \E id \in ParamIds, user \in AuthUsers, throws \in BOOLEAN :
      \E pick \in Targets(store, id) :
        Started(r, "deleteBlog", Request(Undefined, id, user), TRUE, throws,
                deleteBlogRun(id, throws, pick, store, nextId))

deleteBlogResumed ==
  \E r \in Reqs :
    /\ Awaiting(r, "deleteBlog")
    /\ \E flt \in Thrown(r) :
      Resumed(r, flt, deleteBlogAfter(run[r].calls[1], flt, run[r].result))

\* The handler of request r has returned: its request and response are gone.
Return ==
  \E r \in Reqs :
    /\ run[r].pc = "done"
    /\ run' = [run EXCEPT ![r] = Idle]
    /\ UNCHANGED <<store, nextId>>

Next ==
  \/ addBlog
  \/ addBlogResumed
  \/ findAllBlog
  \/ findAllBlogResumed
  \/ getBlogCount
  \/ getBlogCountResumed
  \/ softDeleteManyBlog
  \/ softDeleteManyBlogResumed
  \/ bulkInsertBlog
  \/ bulkInsertBlogResumed
  \/ bulkUpdateBlog
  \/ bulkUpdateBlogResumed
  \/ deleteManyBlog
  \/ deleteManyBlogResumed
  \/ softDeleteBlog
  \/ softDeleteBlogResumed
  \/ partialUpdateBlog
  \/ partialUpdateBlogResumed
  \/ updateBlog
  \/ updateBlogResumed
  \/ getBlog
  \/ getBlogResumed
  \/ deleteBlog
  \/ deleteBlogResumed
  \/ Return

Spec == Init /\ [][Next]_vars

(***************************************************************************)
(* Properties.  They speak of every request r and of what its invocation   *)
(* has done so far; what an invocation answers is judged when it is done.  *)
(***************************************************************************)
Handles(r, h) == run[r].handler = h
Done(r) == run[r].pc = "done"
Body_(r, k) == Get(run[r].req.body, k)
HasBody(r) == ~Nullish(run[r].req.body)
Ops(r) == {run[r].calls[i].op : i \in 1..Len(run[r].calls)}
WriteOps == {"createDocument", "bulkInsert", "bulkUpdate", "findOneAndUpdateDocument"}

\* The objects a call's payload hands to the store.
PayloadObjects(c) ==
  IF c.data.t = "array" THEN {c.data.e[i] : i \in 1..Len(c.data.e)} ELSE {c.data}

\* The invocation for r answered with resp alone, without a store call and
\* without changing the collection.
Refused(r, resp) ==
  /\ Done(r)
  /\ run[r].responses = <<resp>>
  /\ run[r].calls = <<>>
  /\ ~run[r].wrote

\* C1: every payload a handler passes to a store write carries addedBy and
\* updatedBy values that, when present, equal the authenticated user's id.
C1_NoClientAuditFields ==
  \A r \in Reqs :
    \A i \in 1..Len(run[r].calls) :
      run[r].calls[i].op \in WriteOps =>
        \A o \in PayloadObjects(run[r].calls[i]) :
          \A k \in {"addedBy", "updatedBy"} : k \in DOMAIN o.f => o.f[k] = run[r].req.user

\* C2: in every handler, a store call that throws a ValidationError or a
\* duplicate-key error (code 11000) is answered with validationError, and one
\* that throws anything else with internalServerError.
C2_UniformErrorMapping ==
  \A r \in Reqs :
    (Done(r) /\ run[r].calls # <<>> /\ run[r].fault # NoError) =>
      run[r].responses[Len(run[r].responses)] =
        IF run[r].fault.name = "ValidationError" \/ run[r].fault.code = 11000
        THEN ValidationErrorResp ELSE InternalServerErrorResp

\* C3: softDeleteManyBlog and deleteManyBlog with ids missing, not an array or
\* empty, and bulkInsertBlog with data missing, not an array or empty, answer
\* badRequest, issue no store call and leave the collection as it was.
C3_BadRequestBeforeStore ==
  LET emptyOrNoArray(v) == v.t # "array" \/ v.e = <<>>
  IN \A r \in Reqs :
       (/\ HasBody(r)
        /\ \/ /\ run[r].handler \in {"softDeleteManyBlog", "deleteManyBlog"}
              /\ emptyOrNoArray(Body_(r, "ids"))
           \/ Handles(r, "bulkInsertBlog") /\ emptyOrNoArray(Body_(r, "data")))
       => Refused(r, BadRequestResp)

C3_Witness ==
  \E r \in Reqs :
    /\ Handles(r, "softDeleteManyBlog")
    /\ Body_(r, "ids") = Arr(<<>>)
    /\ store # <<>>
    /\ Refused(r, BadRequestResp)

\* C4: in addBlog an isValid = false answer of the create-schema validation
\* is answered with validationError, createDocument is not called and the
\* collection is unchanged; createDocument is called only after isValid = true.
C4_InvalidNeverCreated ==
  \A r \in Reqs :
    Handles(r, "addBlog") =>
      /\ ~run[r].isValid => Refused(r, ValidationErrorResp)
      /\ "createDocument" \in Ops(r) => run[r].isValid

C4_Witness ==
  \E r \in Reqs :
    /\ Handles(r, "addBlog")
    /\ ~run[r].isValid
    /\ "title" \notin DOMAIN Spread(run[r].req.body)
    /\ Refused(r, ValidationErrorResp)

\* C5: in findAllBlog a request that passes filter validation and has a truthy
\* body.isCountOnly issues countDocument and nothing else, and a success
\* response carries only totalRecords.
C5_CountOnlyNeverScans ==
  \A r \in Reqs :
    (/\ Handles(r, "findAllBlog")
     /\ run[r].isValid
     /\ HasBody(r)
     /\ Truthy(Body_(r, "isCountOnly")))
    => /\ Len(run[r].calls) = 1
       /\ run[r].calls[1].op = "countDocument"
       /\ Done(r) =>
            /\ Len(run[r].responses) = 1
            /\ run[r].responses[1].helper = "success" =>
                 DOMAIN run[r].responses[1].data.f = {"totalRecords"}

C5_Witness ==
  \E r \in Reqs :
    /\ Handles(r, "findAllBlog")
    /\ run[r].isValid
    /\ Body_(r, "isCountOnly") = Str(<<"y">>)
    /\ Ops(r) = {"countDocument"}
    /\ run[r].responses = <<Success(Obj(Put(NoKeys, "totalRecords", Num(1))))>>

\* Request r is taken up by handler h in this step.
Starts(r, h) == run[r].pc = "idle" /\ run'[r].pc # "idle" /\ run'[r].handler = h

\* The step removes no document unless it starts deleteBlog or deleteManyBlog.
OnlyDeleteRemoves ==
  (DOMAIN store) \ (DOMAIN store') # {} =>
    \E r \in Reqs : Starts(r, "deleteBlog") \/ Starts(r, "deleteManyBlog")

\* A step that starts a soft delete issues only an update that sets
\* isDeleted = true and updatedBy, and keeps every document.
SoftDeleteUpdates ==
  \A r \in Reqs :
    (Starts(r, "softDeleteBlog") \/ Starts(r, "softDeleteManyBlog")) =>
      /\ DOMAIN store' = DOMAIN store
      /\ \A i \in 1..Len(run'[r].calls) :
           /\ run'[r].calls[i].op \in {"findOneAndUpdateDocument", "bulkUpdate"}
           /\ run'[r].calls[i].data =
                Obj([isDeleted |-> Bool(TRUE), updatedBy |-> run'[r].req.user])

\* A getBlog that is started on the id of a soft-deleted document and whose
\* store call does not throw gets that document, and answers with it.
SoftDeletedFound ==
  \A r \in Reqs :
    /\ \A n \in DOMAIN store :
         (/\ Starts(r, "getBlog")
          /\ run'[r].req.id = DocId(n)
          /\ "isDeleted" \in DOMAIN store[n]
          /\ store[n]["isDeleted"] = Bool(TRUE)
          /\ ~run'[r].throws)
         => (run'[r].pc = "awaiting" /\ run'[r].result = WithId(n, store[n]))
    /\ (/\ Handles(r, "getBlog")
        /\ run[r].pc = "awaiting"
        /\ run'[r].pc = "done"
        /\ ~run[r].throws
        /\ Truthy(run[r].result))
       => run'[r].responses = <<Success(run[r].result)>>

\* C6: a document ceases to exist only by deleteBlog or deleteManyBlog; the
\* soft deletes only issue updates that set isDeleted = true and updatedBy,
\* and a soft-deleted document is still found by a later getBlog on its id.
C6_OnlyDeleteRemoves ==
  [][OnlyDeleteRemoves /\ SoftDeleteUpdates /\ SoftDeletedFound]_vars

C6_Witness ==
  \E r \in Reqs :
    /\ Handles(r, "getBlog")
    /\ Done(r)
    /\ Len(run[r].responses) = 1
    /\ run[r].responses[1].helper = "success"
    /\ Get(run[r].responses[1].data, "isDeleted") = Bool(TRUE)
    /\ Get(run[r].responses[1].data, "_id") = run[r].req.id

\* C7 as claimed: for every body the payload of bulkUpdateBlog has no addedBy
\* and has updatedBy equal to the authenticated user's id, and the filter is a
\* copy of body.filter (the empty filter when it is absent).
C7_AlwaysStamped ==
  \A r \in Reqs :
    (Handles(r, "bulkUpdateBlog") /\ run[r].calls # <<>>) =>
      /\ "addedBy" \notin DOMAIN run[r].calls[1].data.f
      /\ "updatedBy" \in DOMAIN run[r].calls[1].data.f
      /\ run[r].calls[1].data.f["updatedBy"] = run[r].req.user
      /\ run[r].calls[1].filter.f =
           (IF Body_(r, "filter").t = "object" THEN Body_(r, "filter").f ELSE NoKeys)

\* C7 amended: the payload of bulkUpdateBlog never has addedBy and the filter
\* is a copy of body.filter (empty when absent or null); updatedBy is the
\* authenticated user's id when body.data is a non-null object, and is absent
\* when body.data is missing, null or not an object.
C7_StampedWhenObject ==
  \A r \in Reqs :
    (Handles(r, "bulkUpdateBlog") /\ HasBody(r)) =>
      /\ Len(run[r].calls) = 1
      /\ run[r].calls[1].op = "bulkUpdate"
      /\ "addedBy" \notin DOMAIN run[r].calls[1].data.f
      /\ IF Body_(r, "data").t \in {"object", "array"}
         THEN /\ "updatedBy" \in DOMAIN run[r].calls[1].data.f
              /\ run[r].calls[1].data.f["updatedBy"] = run[r].req.user
         ELSE "updatedBy" \notin DOMAIN run[r].calls[1].data.f
      /\ run[r].calls[1].filter.f =
           (IF Body_(r, "filter").t = "object" THEN Body_(r, "filter").f ELSE NoKeys)

C7_Witness ==
  \E r \in Reqs :
    /\ Handles(r, "bulkUpdateBlog")
    /\ Body_(r, "data") = Obj([addedBy |-> U2, updatedBy |-> U2])
    /\ Len(run[r].calls) = 1
    /\ run[r].calls[1].data = Obj([updatedBy |-> run[r].req.user])
    /\ run[r].req.user # U2

\* C8: getBlog calls getSingleDocument only for a valid object id; an invalid
\* id is answered with validationError and no store call; a valid id with
\* recordNotFound when the store returns no document and with success and the
\* document otherwise.
C8_GetBlogValidatesId ==
  \A r \in Reqs :
    Handles(r, "getBlog") =>
      /\ run[r].calls # <<>> => ObjectIdIsValid(run[r].req.id)
      /\ ~ObjectIdIsValid(run[r].req.id) => Refused(r, ValidationErrorResp)
      /\ ObjectIdIsValid(run[r].req.id) =>
           /\ Ops(r) = {"getSingleDocument"}
           /\ (Done(r) /\ run[r].fault = NoError) =>
                run[r].responses = IF Truthy(run[r].result)
                                   THEN <<Success(run[r].result)>>
                                   ELSE <<RecordNotFoundResp>>

C8_Witness ==
  \E r \in Reqs :
    /\ Handles(r, "getBlog")
    /\ run[r].req.id = Str(<<"z", "z">>)
    /\ Refused(r, ValidationErrorResp)

\* C9: every invocation of every handler calls exactly one response helper,
\* exactly once.
C9_ExactlyOneResponse ==
  \A r \in Reqs :
    /\ Done(r) => Len(run[r].responses) = 1
    /\ run[r].pc = "awaiting" => Len(run[r].responses) = 0

\* C10: softDeleteBlog, partialUpdateBlog and deleteBlog answer a missing or
\* empty params.id with badRequest, issue no store call and leave the
\* collection unchanged.
C10_MissingIdNoStoreCall ==
  \A r \in Reqs :
    (/\ run[r].handler \in {"softDeleteBlog", "partialUpdateBlog", "deleteBlog"}
     /\ ~Truthy(run[r].req.id))
    => Refused(r, BadRequestResp)

====
